---- MODULE Spec2Model ----
(***************************************************************************)
(* Model of the NLP plugin of src/src/main.ts: the two highlight passes    *)
(* that recover character ranges for analyzer fragments, the decoration    *)
(* field that stores the ranges and re-maps them through edits, plugin     *)
(* start-up (onload) and the bulk refresh of the document cache.           *)
(*                                                                         *)
(* A text is a sequence of one-character strings; positions are 0-based    *)
(* as in the source, so character k of the source is element k+1 here.     *)
(***************************************************************************)
EXTENDS Integers, Sequences, FiniteSets, TLC

VARIABLES
    content,      \* highlight pass: the text read by editor.getValue()
    termsArr,     \* highlight pass: the analyzer's fragments (their text), in order
    pass,         \* which pass runs: "pos" or "sentences"
    idx,          \* 1-based index of the next fragment of the loop
    currOffset,   \* the search cursor of the pass
    marks,        \* posMarks / sentenceMarks: the ranges built so far
    passPc,       \* "running", "dispatched" (batch handed to the view) or "thrown"
    doc,          \* the editor's document
    value,        \* the value of markField: the stored ranges, in order
    updValue,     \* one markField.update call on its own: the value it is given
    updTr,        \* ... the transaction it is given
    updResult,    \* ... what it returned
    updPc,        \* ... "pending" before the call, "returned" after it
    onloadPc,     \* position of onload
    settings,     \* the loaded settings and what the entity file read will do
    registered,   \* what onload has registered with the host so far
    learned,      \* whether learnCustomEntities has been called
    layoutHook,   \* "none", "pending" (callback registered) or "fired"
    Docs,         \* the cache: path -> 0 (no entry) or the id of the run that wrote it
    runs,         \* refreshDocs runs: id -> [state, file, notice, reports]
    nextRun       \* id of the next refreshDocs run

locVars == <<content, termsArr, pass, idx, currOffset, marks, passPc>>
edVars == <<doc, value>>
updVars == <<updValue, updTr, updResult, updPc>>
plugVars == <<onloadPc, settings, registered, learned, layoutHook, Docs, runs, nextRun>>
vars == <<locVars, edVars, updVars, plugVars>>

----------------------------------------------------------------------------
(* Bounds of the model *)

MaxDocLen == 6      \* longest text a highlight pass reads
MaxShortLen == 2    \* fragments: every text over the alphabet up to this length
MaxRunLen == 7      \* fragments: and the runs "a", "aa", ... up to this length
MaxFrags == 2       \* fragments per pass
MaxWordLen == 2     \* joined documents: longest word over the letters
MaxTerms == 3       \* joined documents: number of words

(* Program constants *)

PrefixLen == 5      \* text.slice(0, 5) of the sentence pass

Letters == {"a", "b"}
Alphabet == {"a", " "}

----------------------------------------------------------------------------
(* Texts and the string functions the passes use *)

Min(a, b) == IF a < b THEN a ELSE b
Max(a, b) == IF a > b THEN a ELSE b

Texts(alpha, n) == UNION {[1..k -> alpha] : k \in 0..n}
Run(c, n) == [k \in 1..n |-> c]
SeqsUpTo(S, n) == UNION {[1..k -> S] : k \in 0..n}

\* true when text t occurs in s at 0-based position k
OccursAt(s, t, k) ==
    /\ k >= 0
    /\ k + Len(t) <= Len(s)
    /\ \A j \in 1..Len(t) : s[k + j] = t[j]

\* String.prototype.indexOf(t, position): the position is clamped to
\* [0, length]; the first occurrence at or after it, or -1
IndexOf(s, t, position) ==
    LET p == Min(Max(position, 0), Len(s))
        found == {k \in p..Len(s) : OccursAt(s, t, k)}
    IN  IF found = {} THEN -1
        ELSE CHOOSE k \in found : \A m \in found : k <= m

\* String.prototype.slice(0, n)
SlicePrefix(t, n) == SubSeq(t, 1, Min(n, Len(t)))

----------------------------------------------------------------------------
(* The highlight passes, one loop iteration at a time.  A loop state is    *)
(* [currOffset, marks, thrown].                                            *)

\* the cursor is not advanced past the located fragment
PosTermNoAdvance(text, st, txt) ==
    LET start == IndexOf(text, txt, st.currOffset)
        end == start + Len(txt)
    IN  [currOffset |-> st.currOffset,
         marks |-> IF Len(txt) > 0 THEN Append(st.marks, <<start, end>>)
                   ELSE st.marks,
         thrown |-> FALSE]

\* termsArr.forEach body of "highlight-parts-of-speech"
PosTerm(text, st, txt) ==
    LET start == IndexOf(text, txt, st.currOffset)
        end == start + Len(txt)
    IN  [currOffset |-> end,
         marks |-> IF Len(txt) > 0 THEN Append(st.marks, <<start, end>>)
                   ELSE st.marks,
         thrown |-> FALSE]

\* Decoration.mark(...).range(from, to) throws a RangeError when from >= to
MarkRangeThrows(from, to) == from >= to

\* .map callback of "highlight-sentences"
SentenceTerm(text, st, txt) ==
    LET start == IndexOf(text, SlicePrefix(txt, PrefixLen), st.currOffset)
        end == start + Len(txt)
    IN  IF MarkRangeThrows(start, end)
        THEN [currOffset |-> end, marks |-> st.marks, thrown |-> TRUE]
        ELSE [currOffset |-> end, marks |-> Append(st.marks, <<start, end>>),
              thrown |-> FALSE]

LoopStart == [currOffset |-> 0, marks |-> <<>>, thrown |-> FALSE]

\* the loop state of the running pass
LoopState == [currOffset |-> currOffset, marks |-> marks, thrown |-> FALSE]

PosTermStep ==
    /\ pass = "pos"
    /\ passPc = "running"
    /\ idx <= Len(termsArr)
    /\ LET st == PosTerm(content, LoopState, termsArr[idx])
       IN  /\ currOffset' = st.currOffset
           /\ marks' = st.marks
    /\ idx' = idx + 1
    /\ UNCHANGED <<content, termsArr, pass, passPc, edVars, updVars, plugVars>>

\* dispatch({effects: addMarks.of(posMarks)}) after the loop
PosDispatch ==
    /\ pass = "pos"
    /\ passPc = "running"
    /\ idx > Len(termsArr)
    /\ passPc' = "dispatched"
    /\ UNCHANGED <<content, termsArr, pass, idx, currOffset, marks, edVars, updVars, plugVars>>

SentenceStep ==
    /\ pass = "sentences"
    /\ passPc = "running"
    /\ idx <= Len(termsArr)
    /\ LET st == SentenceTerm(content, LoopState, termsArr[idx])
       IN  /\ currOffset' = st.currOffset
           /\ marks' = st.marks
           /\ passPc' = IF st.thrown THEN "thrown" ELSE "running"
           /\ idx' = IF st.thrown THEN idx ELSE idx + 1
    /\ UNCHANGED <<content, termsArr, pass, edVars, updVars, plugVars>>

\* dispatch({effects: addMarks.of(sentenceMarks)}) after the map
SentenceDispatch ==
    /\ pass = "sentences"
    /\ passPc = "running"
    /\ idx > Len(termsArr)
    /\ passPc' = "dispatched"
    /\ UNCHANGED <<content, termsArr, pass, idx, currOffset, marks, edVars, updVars, plugVars>>

NextLocate == PosTermStep \/ PosDispatch \/ SentenceStep \/ SentenceDispatch

\* the variables of the other parts, at rest
EdIdle ==
    /\ doc = <<>>
    /\ value = <<>>

UpdIdle ==
    /\ updValue = <<>>
    /\ updTr = [docLen |-> 0, changes |-> <<>>, effects |-> <<>>]
    /\ updResult = <<>>
    /\ updPc = "idle"

PlugIdle ==
    /\ onloadPc = "idle"
    /\ settings = [customEntityFile |-> "none", refreshDocsOnLoad |-> FALSE]
    /\ registered = {}
    /\ learned = FALSE
    /\ layoutHook = "none"
    /\ Docs = <<>>
    /\ runs = <<>>
    /\ nextRun = 1

LocIdle ==
    /\ content = <<>>
    /\ termsArr = <<>>
    /\ pass = "none"
    /\ idx = 1
    /\ currOffset = 0
    /\ marks = <<>>
    /\ passPc = "idle"

\* fragments an analyzer may return: short texts over the alphabet and runs
\* longer than the sentence prefix
FragTexts == Texts(Alphabet, MaxShortLen) \cup {Run("a", n) : n \in 0..MaxRunLen}

PassStart ==
    /\ pass \in {"pos", "sentences"}
    /\ idx = 1
    /\ currOffset = LoopStart.currOffset
    /\ marks = LoopStart.marks
    /\ passPc = "running"

\* any text, any fragments
InitLocate ==
    /\ content \in Texts(Alphabet, MaxDocLen)
    /\ termsArr \in SeqsUpTo(FragTexts, MaxFrags)
    /\ PassStart
    /\ EdIdle
    /\ UpdIdle
    /\ PlugIdle

SpecLocate == InitLocate /\ [][NextLocate]_vars

\* words: non-empty, without a space
Words == (Texts(Letters, MaxWordLen) \cup {Run("a", n) : n \in 1..MaxRunLen}) \ {<<>>}

RECURSIVE Join(_)
\* the words, single spaces between them
Join(ws) ==
    IF Len(ws) = 0 THEN <<>>
    ELSE IF Len(ws) = 1 THEN ws[1]
    ELSE ws[1] \o <<" ">> \o Join(Tail(ws))

\* the text is the fragments joined by single spaces
InitJoined ==
    /\ termsArr \in SeqsUpTo(Words, MaxTerms)
    /\ content = Join(termsArr)
    /\ PassStart
    /\ EdIdle
    /\ UpdIdle
    /\ PlugIdle

SpecJoined == InitJoined /\ [][NextLocate]_vars

----------------------------------------------------------------------------
(* The decoration field.  A range is <<from, to>>; the field's value is    *)
(* the sequence of its ranges in iteration order.  A change is             *)
(* [from, to, insert]: the text of [from, to) is replaced by insert.  A    *)
(* transaction is [docLen, changes, effects], docLen the length of the     *)
(* document it starts from, changes holding no or one change.              *)

\* the sections of the change set of one change: <<length, inserted>>,
\* inserted = -1 for a stretch left alone
Sections(docLen, ch) ==
    (IF ch.from > 0 THEN <<<<ch.from, -1>>>> ELSE <<>>)
    \o <<<<ch.to - ch.from, Len(ch.insert)>>>>
    \o (IF docLen > ch.to THEN <<<<docLen - ch.to, -1>>>> ELSE <<>>)

RECURSIVE MapSet(_, _, _, _, _)
\* ChangeDesc.mapPos(pos, assoc) over the sections; past the last section the
\* library throws for a position beyond the document (see MapThrows)
MapSet(secs, posA, posB, pos, assoc) ==
    IF secs = <<>> THEN posB + (pos - posA)
    ELSE LET len == secs[1][1]
             ins == secs[1][2]
             endA == posA + len
         IN  IF ins < 0
             THEN IF endA > pos THEN posB + (pos - posA)
                  ELSE MapSet(Tail(secs), endA, posB + len, pos, assoc)
             ELSE IF endA > pos \/ (endA = pos /\ assoc < 0 /\ len = 0)
                  THEN IF pos = posA \/ assoc < 0 THEN posB ELSE posB + ins
                  ELSE MapSet(Tail(secs), endA, posB + ins, pos, assoc)

MapPos(docLen, ch, pos, assoc) == MapSet(Sections(docLen, ch), 0, 0, pos, assoc)

\* a range touching the replaced span is dropped instead of being clipped
MapRangeDropTouched(docLen, ch, r) ==
    IF r[1] < ch.to /\ ch.from < r[2] THEN <<0, 0>>
    ELSE <<MapPos(docLen, ch, r[1], 1), MapPos(docLen, ch, r[2], -1)>>

\* a mark decoration's range through a change: its start maps with a
\* positive side (it is not inclusive), its end with a negative one
MapRange(docLen, ch, r) ==
    <<MapPos(docLen, ch, r[1], 1), MapPos(docLen, ch, r[2], -1)>>

RECURSIVE MapValue(_, _, _)
\* RangeSet.map: every range is mapped; one that is empty afterwards is dropped
MapValue(val, docLen, ch) ==
    IF val = <<>> THEN <<>>
    ELSE LET m == MapRange(docLen, ch, val[1])
             rest == MapValue(Tail(val), docLen, ch)
         IN  IF m[1] >= m[2] THEN rest ELSE <<m>> \o rest

\* the mapping throws (position out of range for the change set) when a range
\* reaching beyond the document shares its chunk with the change
MapThrows(val, docLen, ch) ==
    \E k \in 1..Len(val) : val[k][2] > docLen /\ ch.to >= val[k][1]

RECURSIVE SortRanges(_)
\* add.slice().sort(cmpRange): stable, ascending by from
SortRanges(rs) ==
    IF rs = <<>> THEN <<>>
    ELSE LET sorted == SortRanges(SubSeq(rs, 1, Len(rs) - 1))
             last == rs[Len(rs)]
             before == SelectSeq(sorted, LAMBDA r : r[1] <= last[1])
             after == SelectSeq(sorted, LAMBDA r : r[1] > last[1])
         IN  before \o <<last>> \o after

RECURSIVE Merge(_, _)
\* the loop of RangeSet.update: a range to add goes before a stored range
\* that does not start before it
Merge(add, cur) ==
    IF add = <<>> THEN cur
    ELSE IF cur = <<>> THEN add
    ELSE IF cur[1][1] - add[1][1] >= 0
         THEN <<add[1]>> \o Merge(Tail(add), cur)
         ELSE <<cur[1]>> \o Merge(add, Tail(cur))

\* value.update({add, sort: true})
AddMarks(val, add) == IF add = <<>> THEN val ELSE Merge(SortRanges(add), val)

\* the predicates of a filterMarks effect: keep the ranges starting at or
\* after k, or those ending at or before k
Keeps(pred, r) ==
    IF pred.kind = "fromAtLeast" THEN r[1] >= pred.k ELSE r[2] <= pred.k

\* value.update({filter})
FilterMarks(val, pred) == SelectSeq(val, LAMBDA r : Keeps(pred, r))

RECURSIVE ApplyEffects(_, _)
\* the loop over tr.effects
ApplyEffects(val, effects) ==
    IF effects = <<>> THEN val
    ELSE LET e == effects[1]
         IN  ApplyEffects(
                 IF e.kind = "addMarks" THEN AddMarks(val, e.value)
                 ELSE IF e.kind = "filterMarks" THEN FilterMarks(val, e.value)
                 ELSE val,
                 Tail(effects))

\* markField.update(value, tr)
MarkFieldUpdate(val, t) ==
    ApplyEffects(
        IF t.changes = <<>> THEN val ELSE MapValue(val, t.docLen, t.changes[1]),
        t.effects)

\* the document after a change
ApplyChange(text, ch) ==
    SubSeq(text, 1, ch.from) \o ch.insert \o SubSeq(text, ch.to + 1, Len(text))

RECURSIVE RunPos(_, _, _)
\* the whole loop of "highlight-parts-of-speech"
RunPos(text, st, terms) ==
    IF terms = <<>> THEN st
    ELSE RunPos(text, PosTerm(text, st, terms[1]), Tail(terms))

RECURSIVE RunSentences(_, _, _)
\* the whole map of "highlight-sentences"; a throw ends it
RunSentences(text, st, terms) ==
    IF terms = <<>> \/ st.thrown THEN st
    ELSE RunSentences(text, SentenceTerm(text, st, terms[1]), Tail(terms))

MaxEdDocLen == 3    \* longest document of the editor
MaxInsert == 2      \* longest text one change inserts
MaxMarks == 2       \* most ranges the field holds
MaxEdFrags == 2     \* fragments per pass in the editor

\* the changes of a document of length n; a change that replaces nothing by
\* nothing is no change
Changes(n, inserts) ==
    {ch \in [from : 0..n, to : 0..n, insert : inserts] :
        ch.from <= ch.to /\ (ch.from < ch.to \/ ch.insert # <<>>)}

EffectTr(text, e) == [docLen |-> Len(text), changes |-> <<>>, effects |-> <<e>>]

\* editorCallback of "highlight-parts-of-speech": read, locate, dispatch
HighlightPoS ==
    /\ \E terms \in SeqsUpTo(FragTexts, MaxEdFrags) :
          LET st == RunPos(doc, LoopStart, terms)
          IN  /\ Len(value) + Len(st.marks) <= MaxMarks
              /\ value' = MarkFieldUpdate(value,
                     EffectTr(doc, [kind |-> "addMarks", value |-> st.marks]))
    /\ UNCHANGED <<doc, locVars, updVars, plugVars>>

\* editorCallback of "highlight-sentences"; when a range cannot be built the
\* callback throws before its dispatch
HighlightSentences ==
    /\ \E terms \in SeqsUpTo(FragTexts, MaxEdFrags) :
          LET st == RunSentences(doc, LoopStart, terms)
          IN  /\ ~st.thrown
              /\ Len(value) + Len(st.marks) <= MaxMarks
              /\ value' = MarkFieldUpdate(value,
                     EffectTr(doc, [kind |-> "addMarks", value |-> st.marks]))
    /\ UNCHANGED <<doc, locVars, updVars, plugVars>>

\* a transaction that edits the document; one whose mapping throws is not
\* applied
EditTransaction ==
    /\ \E ch \in Changes(Len(doc), Texts(Alphabet, MaxInsert)) :
          /\ Len(ApplyChange(doc, ch)) <= MaxEdDocLen
          /\ ~MapThrows(value, Len(doc), ch)
          /\ doc' = ApplyChange(doc, ch)
          /\ value' = MarkFieldUpdate(value,
                 [docLen |-> Len(doc), changes |-> <<ch>>, effects |-> <<>>])
    /\ UNCHANGED <<locVars, updVars, plugVars>>

\* a transaction carrying a filterMarks effect
FilterTransaction ==
    /\ \E pred \in [kind : {"fromAtLeast", "toAtMost"}, k : 0..MaxEdDocLen] :
          value' = MarkFieldUpdate(value,
              EffectTr(doc, [kind |-> "filterMarks", value |-> pred]))
    /\ UNCHANGED <<doc, locVars, updVars, plugVars>>

NextEditor == HighlightPoS \/ HighlightSentences \/ EditTransaction \/ FilterTransaction

\* create(): Decoration.none, over any document
InitEditor ==
    /\ doc \in Texts(Alphabet, MaxEdDocLen)
    /\ value = <<>>
    /\ LocIdle
    /\ UpdIdle
    /\ PlugIdle

SpecEditor == InitEditor /\ [][NextEditor]_vars

(* One update call on its own: any sorted ranges inside the document, any  *)
(* single change.                                                          *)

MaxMapDocLen == 5   \* length of the document the change applies to
MaxMapMarks == 2    \* ranges in the value given to update

RangesIn(n) == {r \in (0..n) \X (0..n) : r[1] < r[2]}

IsSorted(rs) == \A k \in 2..Len(rs) : rs[k - 1][1] <= rs[k][1]

MapUpdate ==
    /\ updPc = "pending"
    /\ updResult' = MarkFieldUpdate(updValue, updTr)
    /\ updPc' = "returned"
    /\ UNCHANGED <<updValue, updTr, locVars, edVars, plugVars>>

InitMap ==
    /\ \E n \in 0..MaxMapDocLen :
          /\ updValue \in {rs \in SeqsUpTo(RangesIn(n), MaxMapMarks) : IsSorted(rs)}
          /\ \E ch \in Changes(n, Texts({"a"}, MaxInsert)) :
                updTr = [docLen |-> n, changes |-> <<ch>>, effects |-> <<>>]
    /\ updResult = <<>>
    /\ updPc = "pending"
    /\ LocIdle
    /\ EdIdle
    /\ PlugIdle

SpecMap == InitMap /\ [][MapUpdate]_vars

----------------------------------------------------------------------------
(* Claims about the highlight passes *)

\* a loop iteration has just acted on fragment idx
Processed == passPc = "running" /\ idx <= Len(termsArr) /\ (idx' # idx \/ passPc' # passPc)

\* what the iteration searches for
Needle(k) ==
    IF pass = "sentences" THEN SlicePrefix(termsArr[k], PrefixLen) ELSE termsArr[k]

\* C1 (as claimed): the ranges of a pass are emitted with non-decreasing start
\* and without overlap: each range starts at or after the end of the one before.
C1_ForwardProgress ==
    \A k \in 2..Len(marks) :
        /\ marks[k][1] >= marks[k - 1][1]
        /\ marks[k][1] >= marks[k - 1][2]

\* C2 (as claimed): a fragment that does not occur at or after the cursor
\* emits no range, leaves the cursor where it was and does not stop the pass.
C2_LocateFailureSkipped ==
    [][(Processed /\ IndexOf(content, Needle(idx), currOffset) = -1)
        => (marks' = marks /\ currOffset' = currOffset /\ passPc' = "running")]_vars

\* C4 (as claimed): an empty fragment emits no range and leaves the cursor
\* exactly where it was, in both passes.
C4_EmptyFragmentSkipped ==
    [][(Processed /\ termsArr[idx] = <<>>)
        => (marks' = marks /\ currOffset' = currOffset)]_vars

\* C9 (as claimed): every range of a dispatched batch lies inside the text
\* the pass read: 0 <= start < end <= length.
C9_RangesInsideDocument ==
    passPc = "dispatched" =>
        \A k \in 1..Len(marks) :
            /\ 0 <= marks[k][1]
            /\ marks[k][1] < marks[k][2]
            /\ marks[k][2] <= Len(content)

\* 0-based position of the k-th word of a joined text
WordPos(k) == IF k = 1 THEN 0 ELSE Len(Join(SubSeq(termsArr, 1, k - 1))) + 1

\* C8: when the text is its non-empty, space-free fragments joined by single
\* spaces, the k-th range is exactly the k-th word's place, and a finished pass
\* has one range per fragment.
C8_ExactLocation ==
    /\ \A k \in 1..Len(marks) :
          marks[k] = <<WordPos(k), WordPos(k) + Len(termsArr[k])>>
    /\ passPc = "dispatched" => Len(marks) = Len(termsArr)

\* a finished sentence pass over three equal words longer than the prefix
C8_Witness ==
    /\ passPc = "dispatched"
    /\ pass = "sentences"
    /\ Len(termsArr) = 3
    /\ termsArr[1] = termsArr[2] /\ termsArr[2] = termsArr[3]
    /\ Len(termsArr[1]) > PrefixLen
    /\ Len(marks) = 3

----------------------------------------------------------------------------
(* Claims about the decoration field *)

\* C5 (as claimed): in every state of the field the stored ranges are sorted
\* ascending by start and each satisfies 0 <= start < end.
C5_RangeSetInvariant ==
    /\ IsSorted(value)
    /\ \A k \in 1..Len(value) : 0 <= value[k][1] /\ value[k][1] < value[k][2]

\* the change of the isolated update call
TheChange == updTr.changes[1]
Delta == Len(TheChange.insert) - (TheChange.to - TheChange.from)
Overlaps(r) == r[1] < TheChange.to /\ TheChange.from < r[2]
Shifted(r) == <<r[1] + Delta, r[2] + Delta>>

\* a range overlapping the replaced span, cut back to what lies outside it: a
\* start inside the span moves behind the inserted text, an end inside the
\* span moves to its beginning
Clipped(r) ==
    <<IF r[1] <= TheChange.from THEN r[1]
      ELSE TheChange.from + Len(TheChange.insert),
      IF r[2] >= TheChange.to THEN r[2] + Delta ELSE TheChange.from>>

RECURSIVE Remapped(_, _)
\* the ranges rs re-mapped one by one, an overlapping range dropped
\* (dropAll) or clipped and dropped only when nothing of it is left
Remapped(rs, dropAll) ==
    IF rs = <<>> THEN <<>>
    ELSE LET r == rs[1]
             rest == Remapped(Tail(rs), dropAll)
         IN  IF r[2] <= TheChange.from THEN <<r>> \o rest
             ELSE IF r[1] >= TheChange.to THEN <<Shifted(r)>> \o rest
             ELSE IF dropAll \/ Clipped(r)[1] >= Clipped(r)[2] THEN rest
             ELSE <<Clipped(r)>> \o rest

\* C6 (as claimed): the update leaves a range ending at or before from alone,
\* shifts a range starting at or after to by insertedLength - (to - from), and
\* drops every range that overlaps [from, to).
C6_RemapDropsOverlapping ==
    updPc = "returned" => updResult = Remapped(updValue, TRUE)

\* C6 (amended): ranges ending at or before from are unchanged, ranges starting
\* at or after to are shifted by insertedLength - (to - from), and a range
\* overlapping [from, to) is clipped to what lies outside the replaced span and
\* dropped only when nothing of it is left.
C6_RemapClipsOverlapping ==
    updPc = "returned" => updResult = Remapped(updValue, FALSE)

\* a replacement with inserted text has been applied to a range reaching into
\* the replaced span, which survives clipped, and to a range behind it
C6_Witness ==
    /\ updPc = "returned"
    /\ TheChange.from < TheChange.to
    /\ TheChange.insert # <<>>
    /\ Len(updValue) = 2
    /\ Overlaps(updValue[1])
    /\ updValue[2][1] >= TheChange.to
    /\ updResult = <<Clipped(updValue[1]), Shifted(updValue[2])>>
    /\ updResult[1] # updValue[1]

----------------------------------------------------------------------------
(* Start-up and the bulk refresh of the cache.  settings.customEntityFile  *)
(* is "none" for an empty customEntityFilePath and otherwise says what     *)
(* reading the file will do: "ok", "unreadable" (the read rejects) or      *)
(* "badJson" (JSON.parse throws).                                          *)

NumFiles == 3       \* markdown files of the vault, paths 1..NumFiles
MaxRuns == 2        \* refreshDocs runs started in one behaviour

Paths == 1..NumFiles

\* what onload registers after the entity file
Commands ==
    {"open-Markup", "open-Match", "open-PoS", "refresh-docs", "markField",
     "highlight-parts-of-speech", "highlight-sentences",
     "text-manipulation", "entity"}

\* lines 48-221: synchronous, so one step
RegisterAll ==
    /\ registered' = registered \cup {"settingTab"} \cup Commands
    /\ layoutHook' = IF settings.refreshDocsOnLoad THEN "pending" ELSE "none"
    /\ onloadPc' = "loaded"

\* onload up to its first await
OnloadStart ==
    /\ onloadPc = "start"
    /\ onloadPc' = "loadSettings"
    /\ UNCHANGED <<settings, registered, learned, layoutHook, Docs, runs, nextRun,
                   locVars, edVars, updVars>>

\* loadSettings has resolved: the setting tab, the model, then either the
\* read of the entity file or the registrations
OnloadSettingsLoaded ==
    /\ onloadPc = "loadSettings"
    /\ IF settings.customEntityFile # "none"
       THEN /\ onloadPc' = "readEntities"
            /\ registered' = registered \cup {"settingTab"}
            /\ UNCHANGED layoutHook
       ELSE RegisterAll
    /\ UNCHANGED <<settings, learned, Docs, runs, nextRun, locVars, edVars, updVars>>

\* the file was read and parsed: learnCustomEntities, then the registrations
OnloadEntitiesRead ==
    /\ onloadPc = "readEntities"
    /\ settings.customEntityFile = "ok"
    /\ learned' = TRUE
    /\ RegisterAll
    /\ UNCHANGED <<settings, Docs, runs, nextRun, locVars, edVars, updVars>>

\* the read rejected or JSON.parse threw: nothing catches it, onload rejects
OnloadEntitiesFailed ==
    /\ onloadPc = "readEntities"
    /\ settings.customEntityFile \in {"unreadable", "badJson"}
    /\ onloadPc' = "rejected"
    /\ UNCHANGED <<settings, registered, learned, layoutHook, Docs, runs, nextRun,
                   locVars, edVars, updVars>>

\* refreshDocs up to its first await: the notice, the file list, the read of
\* the first file
NewRun == [state |-> "loading", file |-> 1, notice |-> "Refreshing docs...",
           reports |-> 0]

StartRun ==
    /\ nextRun <= MaxRuns
    /\ runs' = Append(runs, NewRun)
    /\ nextRun' = nextRun + 1

\* the "Refresh Docs" command
RefreshCommand ==
    /\ "refresh-docs" \in registered
    /\ StartRun
    /\ UNCHANGED <<onloadPc, settings, registered, learned, layoutHook, Docs,
                   locVars, edVars, updVars>>

\* the onLayoutReady callback
LayoutReady ==
    /\ layoutHook = "pending"
    /\ layoutHook' = "fired"
    /\ StartRun
    /\ UNCHANGED <<onloadPc, settings, registered, learned, Docs,
                   locVars, edVars, updVars>>

\* the catch block of refreshDocs
RunAfterFailure(run) ==
    [run EXCEPT !.state = "done", !.reports = @ + 1,
                !.notice = "An error occured, check the console for more information."]

\* the loop after a stored document: the next file, or the end of the loop
RunAfterStore(run) ==
    IF run.file < NumFiles
    THEN [run EXCEPT !.file = @ + 1]
    ELSE [run EXCEPT !.state = "done", !.notice = "Docs Refreshed"]

\* getWinkDocFromFile resolved for the awaited file of run r
LoadResolves(r) ==
    /\ runs[r].state = "loading"
    /\ Docs' = [Docs EXCEPT ![runs[r].file] = r]
    /\ runs' = [runs EXCEPT ![r] = RunAfterStore(runs[r])]
    /\ UNCHANGED <<onloadPc, settings, registered, learned, layoutHook, nextRun,
                   locVars, edVars, updVars>>

\* cachedRead rejected or readDoc threw for the awaited file of run r
LoadFails(r) ==
    /\ runs[r].state = "loading"
    /\ runs' = [runs EXCEPT ![r] = RunAfterFailure(runs[r])]
    /\ UNCHANGED <<onloadPc, settings, registered, learned, layoutHook, Docs, nextRun,
                   locVars, edVars, updVars>>

NextPlugin ==
    \/ OnloadStart
    \/ OnloadSettingsLoaded
    \/ OnloadEntitiesRead
    \/ OnloadEntitiesFailed
    \/ RefreshCommand
    \/ LayoutReady
    \/ \E r \in 1..MaxRuns : r <= Len(runs) /\ LoadResolves(r)
    \/ \E r \in 1..MaxRuns : r <= Len(runs) /\ LoadFails(r)

\* Docs = {}; the stored settings are any
InitPlugin ==
    /\ onloadPc = "start"
    /\ settings \in [customEntityFile : {"none", "ok", "unreadable", "badJson"},
                     refreshDocsOnLoad : BOOLEAN]
    /\ registered = {}
    /\ learned = FALSE
    /\ layoutHook = "none"
    /\ Docs = [p \in Paths |-> 0]
    /\ runs = <<>>
    /\ nextRun = 1
    /\ LocIdle
    /\ EdIdle
    /\ UpdIdle

SpecPlugin == InitPlugin /\ [][NextPlugin]_vars

----------------------------------------------------------------------------
(* Claims about start-up and the refresh *)

Failed(r) == runs[r].state = "done" /\ runs[r].reports > 0

\* C3 (as claimed): when the load of one path fails, the finished refresh has
\* stored a fresh entry for every other path, before and after the failing
\* one, and has reported the failure exactly once.
C3_PartialSuccess ==
    \A r \in 1..Len(runs) :
        Failed(r) =>
            /\ runs[r].reports = 1
            /\ \A p \in Paths \ {runs[r].file} : Docs[p] >= r

\* C7 (as claimed): when the entity file is set but cannot be read or parsed,
\* onload still completes, no custom entities are learned and every command
\* and the decoration field are registered.
C7_ConfigFailureDoesNotBlock ==
    (settings.customEntityFile \in {"unreadable", "badJson"}
        /\ onloadPc \notin {"start", "loadSettings", "readEntities"})
    => (onloadPc = "loaded" /\ ~learned /\ Commands \subseteq registered)

\* C10 (as claimed): at most one refreshDocs run is in flight at any time.
C10_RefreshesSerialized ==
    Cardinality({r \in 1..Len(runs) : runs[r].state = "loading"}) <= 1

====
